---- MODULE Spec2Model ----
(***************************************************************************)
(* emailToCalendar: the shift parser (shift_parser.py), the calendar file  *)
(* sink (calendar_generator.py) and the driver (main.py).                  *)
(*                                                                         *)
(* Text is modelled character by character: a Python str is a sequence of  *)
(* one-character strings, and every regular expression of the parser is an *)
(* operator that scans such a sequence the way the re module does.         *)
(***************************************************************************)
EXTENDS Integers, Sequences, FiniteSets, TLC

\* ------------------------------------------------------------------------
\* Characters
\* ------------------------------------------------------------------------

Digits == <<"0", "1", "2", "3", "4", "5", "6", "7", "8", "9">>

UpperLetters ==
  <<"A", "B", "C", "D", "E", "F", "G", "H", "I", "J", "K", "L", "M",
    "N", "O", "P", "Q", "R", "S", "T", "U", "V", "W", "X", "Y", "Z">>

LowerLetters ==
  <<"a", "b", "c", "d", "e", "f", "g", "h", "i", "j", "k", "l", "m",
    "n", "o", "p", "q", "r", "s", "t", "u", "v", "w", "x", "y", "z">>

\* \d
IsDigit(c) == \E k \in 1..10 : Digits[k] = c

DigitVal(c) == (CHOOSE k \in 1..10 : Digits[k] = c) - 1

\* \s, and the characters str.strip() removes
IsSpace(c) == c \in {" ", "\t", "\n"}

\* re.IGNORECASE folds both sides to one case
Lower(c) ==
  IF \E k \in 1..26 : UpperLetters[k] = c
  THEN LowerLetters[CHOOSE k \in 1..26 : UpperLetters[k] = c]
  ELSE c

\* str.upper(), character by character
Upper(c) ==
  IF \E k \in 1..26 : LowerLetters[k] = c
  THEN UpperLetters[CHOOSE k \in 1..26 : LowerLetters[k] = c]
  ELSE c

UpperStr(s) == [k \in 1..Len(s) |-> Upper(s[k])]

\* The literal lit matches s at position i, letter case ignored.
MatchLit(s, i, lit) ==
  /\ i + Len(lit) - 1 <= Len(s)
  /\ \A k \in 1..Len(lit) : Lower(s[i + k - 1]) = Lower(lit[k])

\* The number of characters from position i on that satisfy a greedy \d* .
RECURSIVE DigitRun(_, _)
DigitRun(s, i) ==
  IF i <= Len(s) /\ IsDigit(s[i]) THEN 1 + DigitRun(s, i + 1) ELSE 0

\* The number of characters from position i on that satisfy a greedy \s* .
RECURSIVE SpaceRun(_, _)
SpaceRun(s, i) ==
  IF i <= Len(s) /\ IsSpace(s[i]) THEN 1 + SpaceRun(s, i + 1) ELSE 0

\* The decimal value of the digits s[i..j].
RECURSIVE IntOf(_, _, _)
IntOf(s, i, j) ==
  IF j < i THEN 0 ELSE IntOf(s, i, j - 1) * 10 + DigitVal(s[j])

RECURSIVE Cat(_)
Cat(ss) == IF ss = <<>> THEN <<>> ELSE Head(ss) \o Cat(Tail(ss))

\* str.strip()
RECURSIVE LStrip(_)
LStrip(s) == IF s # <<>> /\ IsSpace(Head(s)) THEN LStrip(Tail(s)) ELSE s

RECURSIVE RStrip(_)
RStrip(s) ==
  IF s # <<>> /\ IsSpace(s[Len(s)]) THEN RStrip(SubSeq(s, 1, Len(s) - 1)) ELSE s

Strip(s) == RStrip(LStrip(s))

\* The least element of a non-empty set of positions.
Least(S) == CHOOSE i \in S : \A j \in S : i <= j

\* str.splitlines(): a line ends at each "\n"; a final "\n" opens no line.
RECURSIVE SplitLinesFrom(_, _, _)
SplitLinesAt(s, start, acc, nl) ==
  IF start > Len(s) THEN acc
  ELSE IF nl = {} THEN Append(acc, SubSeq(s, start, Len(s)))
  ELSE SplitLinesFrom(s, Least(nl) + 1, Append(acc, SubSeq(s, start, Least(nl) - 1)))

SplitLinesFrom(s, start, acc) ==
  SplitLinesAt(s, start, acc, {i \in start..Len(s) : s[i] = "\n"})

SplitLines(s) == SplitLinesFrom(s, 1, <<>>)

\* ------------------------------------------------------------------------
\* Values
\* ------------------------------------------------------------------------

\* Python's None
None == [none |-> TRUE]

\* A captured string (position, work_site), kept apart from None
Str(s) == [str |-> s]

LblWorkSite == <<"W", "o", "r", "k", " ", "S", "i", "t", "e", ":">>
LblPosition == <<"P", "o", "s", "i", "t", "i", "o", "n", ":">>
LblDate == <<"D", "a", "t", "e", ":">>
LblTime == <<"T", "i", "m", "e", ":">>
TitleSep == <<" ", "@", " ">>
DefaultTitle == <<"W", "o", "r", "k", " ", "S", "h", "i", "f", "t">>

\* ------------------------------------------------------------------------
\* The patterns of shift_parser.py
\* ------------------------------------------------------------------------

\* The character at position i, "" beyond the ends.
CharAt(s, i) == IF i >= 1 /\ i <= Len(s) THEN s[i] ELSE ""

\* The digit at position i, or -1.
DigitAt(s, i) == IF i >= 1 /\ i <= Len(s) /\ IsDigit(s[i]) THEN DigitVal(s[i]) ELSE -1

\* ^ under re.MULTILINE
AtLineStart(s, i) == i = 1 \/ s[i - 1] = "\n"

\* \s+Work Site: with w the run of whitespace at from: the position after, or 0.
BlockLabelAt(s, from, w) ==
  IF w >= 1 /\ MatchLit(s, from + w, LblWorkSite)
  THEN from + w + Len(LblWorkSite)
  ELSE 0

\* ^\d+\. with d the run of digits at i, then the rest of the pattern.
BlockNumberAt(s, i, d) ==
  IF AtLineStart(s, i) /\ d >= 1 /\ CharAt(s, i + d) = "."
  THEN BlockLabelAt(s, i + d + 1, SpaceRun(s, i + d + 1))
  ELSE 0

\* SHIFT_BLOCK_RE tried at position i: the position after the match, or 0.
ShiftBlockMatch(s, i) == BlockNumberAt(s, i, DigitRun(s, i))

\* SHIFT_BLOCK_RE.split(body): the text between successive matches, the
\* search for the next match resuming where the last one ended.
RECURSIVE SplitFrom(_, _, _)
SplitAt(s, start, acc, hits) ==
  IF hits = {} THEN Append(acc, SubSeq(s, start, Len(s)))
  ELSE SplitFrom(s, ShiftBlockMatch(s, Least(hits)),
                 Append(acc, SubSeq(s, start, Least(hits) - 1)))

SplitFrom(s, start, acc) ==
  SplitAt(s, start, acc, {i \in start..Len(s) : ShiftBlockMatch(s, i) > 0})

ShiftBlockSplit(s) == SplitFrom(s, 1, <<>>)

\* (.+) from position k on, after a greedy \s* that gives its last character
\* back when it has eaten the rest of the line.
RestGroup(line, k) ==
  IF k > Len(line)
  THEN Str(SubSeq(line, Len(line), Len(line)))
  ELSE Str(SubSeq(line, k, Len(line)))

\* WORK_SITE_RE / POSITION_RE: the label, \s*, then (.+). The group, or None.
LabelledText(line, lbl) ==
  IF MatchLit(line, 1, lbl) /\ Len(lbl) < Len(line)
  THEN RestGroup(line, Len(lbl) + 1 + SpaceRun(line, Len(lbl) + 1))
  ELSE None

WorkSiteMatch(line) == LabelledText(line, LblWorkSite)

PositionMatch(line) == LabelledText(line, LblPosition)

\* \d{2}/\d{2}/\d{4} at position i
DateShapeAt(s, i) ==
  /\ i + 9 <= Len(s)
  /\ \A k \in {0, 1, 3, 4, 6, 7, 8, 9} : IsDigit(s[i + k])
  /\ s[i + 2] = "/"
  /\ s[i + 5] = "/"

\* (\d{2}/\d{2}/\d{4}) at position i: the group, or None. Nothing anchors the
\* end of the pattern: what follows the group is not looked at.
DateGroupAt(line, i) ==
  IF DateShapeAt(line, i) THEN Str(SubSeq(line, i, i + 9)) ELSE None

\* DATE_LINE_RE.match(line): group 1, or None.
DateLineMatch(line) ==
  IF MatchLit(line, 1, LblDate)
  THEN DateGroupAt(line, Len(LblDate) + 1 + SpaceRun(line, Len(LblDate) + 1))
  ELSE None

\* \d{1,2}: at position i, with d the run of digits there: the digits taken, or 0.
HourWidth(s, i, d) ==
  IF d >= 2 /\ CharAt(s, i + 2) = ":" THEN 2
  ELSE IF d >= 1 /\ CharAt(s, i + 1) = ":" THEN 1
  ELSE 0

\* (AM|PM) at position ap, after the clock text s[i..last]
ClockMarkerAt(s, i, last, ap) ==
  IF MatchLit(s, ap, <<"A", "M">>) \/ MatchLit(s, ap, <<"P", "M">>)
  THEN [t |-> SubSeq(s, i, last), ap |-> SubSeq(s, ap, ap + 1), next |-> ap + 2]
  ELSE None

\* :\d{2}\s* after an hour of h digits at position i
ClockMinutesAt(s, i, h) ==
  IF h > 0 /\ DigitAt(s, i + h + 1) >= 0 /\ DigitAt(s, i + h + 2) >= 0
  THEN ClockMarkerAt(s, i, i + h + 2, i + h + 3 + SpaceRun(s, i + h + 3))
  ELSE None

\* (\d{1,2}:\d{2})\s*(AM|PM) at position i: [t, ap, next], or None.
ClockAt(s, i) == ClockMinutesAt(s, i, HourWidth(s, i, DigitRun(s, i)))

\* The four groups, a and b the two clocks
TimeGroups(a, b) ==
  IF b = None THEN None
  ELSE [g1 |-> a.t, g2 |-> a.ap, g3 |-> b.t, g4 |-> b.ap]

\* -\s* and the second clock, dash the position after the first clock's \s*
TimeAfterDash(line, a, dash) ==
  IF CharAt(line, dash) = "-"
  THEN TimeGroups(a, ClockAt(line, dash + 1 + SpaceRun(line, dash + 1)))
  ELSE None

TimeAfterClock(line, a) ==
  IF a = None THEN None
  ELSE TimeAfterDash(line, a, a.next + SpaceRun(line, a.next))

\* TIME_LINE_RE.match(line): groups 1 to 4, or None.
TimeLineMatch(line) ==
  IF MatchLit(line, 1, LblTime)
  THEN TimeAfterClock(line, ClockAt(line, Len(LblTime) + 1 + SpaceRun(line, Len(LblTime) + 1)))
  ELSE None

\* ------------------------------------------------------------------------
\* datetime.strptime, as _parse_date and _parse_time use it
\* ------------------------------------------------------------------------

\* The first of the alternatives that fit, in order: the one a backtracking
\* matcher settles on. None when there is none.
FirstOf(fitting) ==
  IF fitting = <<>> THEN None ELSE Head(fitting)

Alt(ok, val, next) == [ok |-> ok, val |-> val, next |-> next]

IsOk(a) == a.ok

Viable(alts) == SelectSeq(alts, IsOk)

\* %d : 3[0-1] | [1-2]\d | 0[1-9] | [1-9] | " "[1-9], a and b the digits at i, i+1
DayAltsOf(a, b, c, i) ==
  Viable(<<Alt(a = 3 /\ b \in {0, 1}, 10 * a + b, i + 2),
           Alt(a \in {1, 2} /\ b >= 0, 10 * a + b, i + 2),
           Alt(a = 0 /\ b >= 1, b, i + 2),
           Alt(a >= 1, a, i + 1),
           Alt(c = " " /\ b >= 1, b, i + 2)>>)

DayAlts(s, i) == DayAltsOf(DigitAt(s, i), DigitAt(s, i + 1), CharAt(s, i), i)

\* %m and %I : 1[0-2] | 0[1-9] | [1-9], a and b the digits at i, i+1
TwelveAltsOf(a, b, i) ==
  Viable(<<Alt(a = 1 /\ b \in {0, 1, 2}, 10 + b, i + 2),
           Alt(a = 0 /\ b >= 1, b, i + 2),
           Alt(a >= 1, a, i + 1)>>)

TwelveAlts(s, i) == TwelveAltsOf(DigitAt(s, i), DigitAt(s, i + 1), i)

\* %M : [0-5]\d | \d, a and b the digits at i, i+1
MinuteAltsOf(a, b, i) ==
  Viable(<<Alt(a \in 0..5 /\ b >= 0, 10 * a + b, i + 2),
           Alt(a >= 0, a, i + 1)>>)

MinuteAlts(s, i) == MinuteAltsOf(DigitAt(s, i), DigitAt(s, i + 1), i)

\* %Y : \d\d\d\d
YearOk(s, i) == \A k \in 0..3 : DigitAt(s, i + k) >= 0

\* %p : am | pm, letter case ignored
AmPmOk(s, i) == MatchLit(s, i, <<"a", "m">>) \/ MatchLit(s, i, <<"p", "m">>)

IsLeap(y) == y % 4 = 0 /\ (y % 100 # 0 \/ y % 400 = 0)

DaysInMonth(y, m) ==
  IF m = 2 THEN (IF IsLeap(y) THEN 29 ELSE 28)
  ELSE IF m \in {4, 6, 9, 11} THEN 30 ELSE 31

\* /%Y after the month alternative mo
MonthFits(s, mo) == CharAt(s, mo.next) = "/" /\ YearOk(s, mo.next + 1)

MonthOf(s, i) == FirstOf(SelectSeq(TwelveAlts(s, i), LAMBDA mo : MonthFits(s, mo)))

\* /%m/%Y after the day alternative da
DayFits(s, da) == CharAt(s, da.next) = "/" /\ MonthOf(s, da.next + 1) # None

\* date(y, m, d), refused when text is left over or the day does not exist
CheckedDate(d, m, y, whole) ==
  IF whole /\ y >= 1 /\ d <= DaysInMonth(y, m)
  THEN [y |-> y, m |-> m, d |-> d]
  ELSE None

DateOfMonth(s, da, mo) ==
  CheckedDate(da.val, mo.val, IntOf(s, mo.next + 1, mo.next + 4), mo.next + 4 = Len(s))

DateOfDay(s, da) ==
  IF da = None THEN None ELSE DateOfMonth(s, da, MonthOf(s, da.next + 1))

\* strptime(date_str, "%d/%m/%Y").date(), None on ValueError.
_parse_date(date_str) ==
  DateOfDay(date_str, FirstOf(SelectSeq(DayAlts(date_str, 1), LAMBDA da : DayFits(date_str, da))))

\* \s+%p after the minute alternative mi
MinFits(s, mi) ==
  SpaceRun(s, mi.next) >= 1 /\ AmPmOk(s, mi.next + SpaceRun(s, mi.next))

MinuteOf(s, i) == FirstOf(SelectSeq(MinuteAlts(s, i), LAMBDA mi : MinFits(s, mi)))

\* :%M %p after the hour alternative ho
HourFits(s, ho) == CharAt(s, ho.next) = ":" /\ MinuteOf(s, ho.next + 1) # None

\* Hour24 without the wrap of 12 to 0
Hour24_NoWrap(hour12, pm) == hour12 + (IF pm THEN 12 ELSE 0)

\* The 24-hour clock hour of hour I of the 12-hour clock
Hour24(hour12, pm) == (hour12 % 12) + (IF pm THEN 12 ELSE 0)

\* time(hour, minute), p the position of the marker
TimeOfMarker(s, ho, mi, p) ==
  IF p + 1 = Len(s)
  THEN [h |-> Hour24(ho.val, MatchLit(s, p, <<"p", "m">>)), mi |-> mi.val]
  ELSE None

TimeOfMinute(s, ho, mi) == TimeOfMarker(s, ho, mi, mi.next + SpaceRun(s, mi.next))

TimeOfHour(s, ho) ==
  IF ho = None THEN None ELSE TimeOfMinute(s, ho, MinuteOf(s, ho.next + 1))

\* strptime(s, "%I:%M %p").time(), None on ValueError.
StrpTime(s) == TimeOfHour(s, FirstOf(SelectSeq(TwelveAlts(s, 1), LAMBDA ho : HourFits(s, ho))))

_parse_time(time_str, ampm) == StrpTime(time_str \o <<" ">> \o UpperStr(ampm))

\* ------------------------------------------------------------------------
\* _parse_block
\* ------------------------------------------------------------------------

NoFields ==
  [shift_date |-> None, start_time |-> None, end_time |-> None,
   position |-> None, work_site |-> None]

\* start_time and end_time from the groups of a Time line
WithTimes(f, ti) ==
  [f EXCEPT !.start_time = _parse_time(ti.g1, ti.g2),
            !.end_time = _parse_time(ti.g3, ti.g4)]

\* The if / elif chain over a stripped, non-empty line
ScanStripped(f, line) ==
  IF WorkSiteMatch(line) # None
  THEN [f EXCEPT !.work_site = Str(Strip(WorkSiteMatch(line).str))]
  ELSE IF PositionMatch(line) # None
  THEN [f EXCEPT !.position = Str(Strip(PositionMatch(line).str))]
  ELSE IF DateLineMatch(line) # None
  THEN [f EXCEPT !.shift_date = _parse_date(DateLineMatch(line).str)]
  ELSE IF TimeLineMatch(line) # None
  THEN WithTimes(f, TimeLineMatch(line))
  ELSE f

SkipBlank(f, line) == IF line = <<>> THEN f ELSE ScanStripped(f, line)

\* One pass of the loop body over a raw line.
ScanLine(f, raw) == SkipBlank(f, Strip(raw))

\* ScanLines with the lines taken last to first: the first occurrence wins
RECURSIVE ScanLines_FirstWins(_, _)
ScanLines_FirstWins(f, lines) ==
  IF lines = <<>> THEN f
  ELSE ScanLine(ScanLines_FirstWins(f, Tail(lines)), Head(lines))

RECURSIVE ScanLines(_, _)
ScanLines(f, lines) ==
  IF lines = <<>> THEN f ELSE ScanLines(ScanLine(f, Head(lines)), Tail(lines))

\* The fields of a block after the scan of all its lines.
BlockFields(block) == ScanLines(NoFields, SplitLines(block))

\* not (shift_date is None or start_time is None or end_time is None)
FieldsResolved(f) == f.shift_date # None /\ f.start_time # None /\ f.end_time # None

RECURSIVE Join(_, _)
Join(parts, sep) ==
  IF parts = <<>> THEN <<>>
  ELSE IF Len(parts) = 1 THEN Head(parts)
  ELSE Head(parts) \o sep \o Join(Tail(parts), sep)

\* "if p": neither None nor the empty string
Truthy(p) == p # None /\ p.str # <<>>

\* " @ ".join(parts) if parts else "Work Shift"
TitleOf(parts) == IF parts # <<>> THEN Join(parts, TitleSep) ELSE DefaultTitle

Texts(kept) == [k \in 1..Len(kept) |-> kept[k].str]

\* MakeTitle with the site put first
MakeTitle_SiteFirst(position, work_site) ==
  TitleOf(Texts(SelectSeq(<<work_site, position>>, Truthy)))

\* parts = [p for p in [position, work_site] if p], then the title
MakeTitle(position, work_site) ==
  TitleOf(Texts(SelectSeq(<<position, work_site>>, Truthy)))

\* ShiftOf without its validation gate
ShiftOf_NoGate(f) ==
  [date |-> f.shift_date, start |-> f.start_time, end |-> f.end_time,
   title |-> MakeTitle(f.position, f.work_site)]

\* The validation gate and the record, f the fields after the scan
ShiftOf(f) ==
  IF ~FieldsResolved(f) THEN None
  ELSE [date |-> f.shift_date, start |-> f.start_time, end |-> f.end_time,
        title |-> MakeTitle(f.position, f.work_site)]

\* The shift of a block, or None.
_parse_block(block) == ShiftOf(BlockFields(block))

\* ------------------------------------------------------------------------
\* calendar_generator.py
\* ------------------------------------------------------------------------

EVENT_SUMMARY == DefaultTitle

EVENT_COLOR == <<"#", "E", "6", "7", "C", "7", "3">>

\* The calendar day after a date: what timedelta(days=1) adds.
NextDay(date) ==
  IF date.d < DaysInMonth(date.y, date.m) THEN [date EXCEPT !.d = date.d + 1]
  ELSE IF date.m < 12 THEN [y |-> date.y, m |-> date.m + 1, d |-> 1]
  ELSE [y |-> date.y + 1, m |-> 1, d |-> 1]

\* time <= time
TimeLeq(a, b) == a.h < b.h \/ (a.h = b.h /\ a.mi <= b.mi)

\* date < date
DateLess(a, b) ==
  \/ a.y < b.y
  \/ a.y = b.y /\ a.m < b.m
  \/ a.y = b.y /\ a.m = b.m /\ a.d < b.d

\* datetime.combine(date, time)
Combine(date, time) == [date |-> date, time |-> time]

\* dt_end <= dt_start, both combined from the same date
DtLeq(a, b) ==
  \/ DateLess(a.date, b.date)
  \/ a.date = b.date /\ TimeLeq(a.time, b.time)

\* RollOver with "<" for "<="
RollOver_Strict(dt_start, dt_end) ==
  IF DtLeq(dt_end, dt_start) /\ dt_end # dt_start
  THEN [dt_end EXCEPT !.date = NextDay(dt_end.date)]
  ELSE dt_end

\* dt_end after "if dt_end <= dt_start: dt_end += timedelta(days=1)"
RollOver(dt_start, dt_end) ==
  IF DtLeq(dt_end, dt_start)
  THEN [dt_end EXCEPT !.date = NextDay(dt_end.date)]
  ELSE dt_end

\* shift.get("title", EVENT_SUMMARY)
TitleGet(shift) == IF "title" \in DOMAIN shift THEN shift.title ELSE EVENT_SUMMARY

\* The VEVENT of a shift. dtstamp (the clock) and uid (uuid4) are left out:
\* nothing reads them.
_make_event(shift) ==
  [summary |-> TitleGet(shift),
   dtstart |-> Combine(shift.date, shift.start),
   dtend |-> RollOver(Combine(shift.date, shift.start), Combine(shift.date, shift.end)),
   color |-> EVENT_COLOR]

\* The least of a set of dates
LeastDate(ds) == CHOOSE a \in ds : \A b \in ds : a = b \/ DateLess(a, b)

\* min(s["date"] for s in shifts)
EarliestDate(ss) == LeastDate({ss[k].date : k \in 1..Len(ss)})

\* OUTPUT_DIR / f"shifts_{earliest.isoformat()}.ics"
DefaultPath(ss) == [dir |-> ".", stem |-> "shifts_", date |-> EarliestDate(ss), ext |-> ".ics"]

\* ------------------------------------------------------------------------
\* Inputs
\* ------------------------------------------------------------------------

\* The text a body may open with, before any shift entry
\* "Hi,\n"
Greeting ==
  <<"H", "i", ",", "\n">>

Preambles == {<<>>, Greeting}

\* Shift entries as the email lays them out
\* "1. Work Site: CAR\nPosition: Bar\nDate: 02/03/2026\nTime: 03:00 PM - 11:00 PM\nClick here\n"
EntryBoth ==
  <<"1", ".", " ", "W", "o", "r", "k", " ", "S", "i", "t", "e", ":", " ",
    "C", "A", "R", "\n", "P", "o", "s", "i", "t", "i", "o", "n", ":", " ",
    "B", "a", "r", "\n", "D", "a", "t", "e", ":", " ", "0", "2", "/", "0",
    "3", "/", "2", "0", "2", "6", "\n", "T", "i", "m", "e", ":", " ", "0",
    "3", ":", "0", "0", " ", "P", "M", " ", "-", " ", "1", "1", ":", "0",
    "0", " ", "P", "M", "\n", "C", "l", "i", "c", "k", " ", "h", "e", "r",
    "e", "\n">>

\* "  2. Work Site: X\nDate: 03/03/2026\nTime: 11:00 PM - 07:00 AM\n"
EntryIndented ==
  <<" ", " ", "2", ".", " ", "W", "o", "r", "k", " ", "S", "i", "t", "e",
    ":", " ", "X", "\n", "D", "a", "t", "e", ":", " ", "0", "3", "/", "0",
    "3", "/", "2", "0", "2", "6", "\n", "T", "i", "m", "e", ":", " ", "1",
    "1", ":", "0", "0", " ", "P", "M", " ", "-", " ", "0", "7", ":", "0",
    "0", " ", "A", "M", "\n">>

\* "3. WORK SITE: Y\n  date: 01/03/2026\n\n time: 9:00 am - 5:00 pm\n"
EntryUpper ==
  <<"3", ".", " ", "W", "O", "R", "K", " ", "S", "I", "T", "E", ":", " ",
    "Y", "\n", " ", " ", "d", "a", "t", "e", ":", " ", "0", "1", "/", "0",
    "3", "/", "2", "0", "2", "6", "\n", "\n", " ", "t", "i", "m", "e", ":",
    " ", "9", ":", "0", "0", " ", "a", "m", " ", "-", " ", "5", ":", "0",
    "0", " ", "p", "m", "\n">>

\* "4. Work Site: Z\nPosition: Chef\nTime: 03:00 PM - 11:00 PM\n"
EntryNoDate ==
  <<"4", ".", " ", "W", "o", "r", "k", " ", "S", "i", "t", "e", ":", " ",
    "Z", "\n", "P", "o", "s", "i", "t", "i", "o", "n", ":", " ", "C", "h",
    "e", "f", "\n", "T", "i", "m", "e", ":", " ", "0", "3", ":", "0", "0",
    " ", "P", "M", " ", "-", " ", "1", "1", ":", "0", "0", " ", "P", "M", "\n">>

\* "5. Work Site:\nDate: 31/12/2026\nTime: 12:00 AM - 12:00 PM\n"
EntryBare ==
  <<"5", ".", " ", "W", "o", "r", "k", " ", "S", "i", "t", "e", ":", "\n",
    "D", "a", "t", "e", ":", " ", "3", "1", "/", "1", "2", "/", "2", "0",
    "2", "6", "\n", "T", "i", "m", "e", ":", " ", "1", "2", ":", "0", "0",
    " ", "A", "M", " ", "-", " ", "1", "2", ":", "0", "0", " ", "P", "M", "\n">>

\* "12.\tWork Site:\nPosition: Bar\nDate: 02/03/2026\nTime: 03:00 PM - 11:00 PM\n"
EntryPositionOnly ==
  <<"1", "2", ".", "\t", "W", "o", "r", "k", " ", "S", "i", "t", "e", ":",
    "\n", "P", "o", "s", "i", "t", "i", "o", "n", ":", " ", "B", "a", "r",
    "\n", "D", "a", "t", "e", ":", " ", "0", "2", "/", "0", "3", "/", "2",
    "0", "2", "6", "\n", "T", "i", "m", "e", ":", " ", "0", "3", ":", "0",
    "0", " ", "P", "M", " ", "-", " ", "1", "1", ":", "0", "0", " ", "P",
    "M", "\n">>

\* "7. Work Site: D\nDate: 31/02/2026\nTime: 03:00 PM - 11:00 PM\n"
EntryBadDate ==
  <<"7", ".", " ", "W", "o", "r", "k", " ", "S", "i", "t", "e", ":", " ",
    "D", "\n", "D", "a", "t", "e", ":", " ", "3", "1", "/", "0", "2", "/",
    "2", "0", "2", "6", "\n", "T", "i", "m", "e", ":", " ", "0", "3", ":",
    "0", "0", " ", "P", "M", " ", "-", " ", "1", "1", ":", "0", "0", " ",
    "P", "M", "\n">>

BodyBlocks ==
  <<EntryBoth, EntryIndented, EntryUpper, EntryNoDate,
    EntryBare, EntryPositionOnly, EntryBadDate>>

\* The most shift entries in a body
MaxBlocks == 2

\* Every choice of at most n items, in order, among the first k
Picks(n, k) == UNION {[1..j -> 1..k] : j \in 0..n}

Bodies ==
  {p \o Cat([k \in 1..Len(q) |-> BodyBlocks[q[k]]]) :
     p \in Preambles, q \in Picks(MaxBlocks, Len(BodyBlocks))}

\* Lines of one block
\* "Position: Bar"
LinePosition ==
  <<"P", "o", "s", "i", "t", "i", "o", "n", ":", " ", "B", "a", "r">>

\* "position:  Chef"
LinePositionAgain ==
  <<"p", "o", "s", "i", "t", "i", "o", "n", ":", " ", " ", "C", "h", "e", "f">>

\* "Work Site: Z"
LineSite ==
  <<"W", "o", "r", "k", " ", "S", "i", "t", "e", ":", " ", "Z">>

\* "Date: 02/03/2026"
LineDate ==
  <<"D", "a", "t", "e", ":", " ", "0", "2", "/", "0", "3", "/", "2", "0",
    "2", "6">>

\* "Date: 31/02/2026"
LineDateImpossible ==
  <<"D", "a", "t", "e", ":", " ", "3", "1", "/", "0", "2", "/", "2", "0",
    "2", "6">>

\* "Date: 2/03/2026"
LineDateOneDigit ==
  <<"D", "a", "t", "e", ":", " ", "2", "/", "0", "3", "/", "2", "0", "2", "6">>

\* "Date: 01/04/20265"
LineDateTrailing ==
  <<"D", "a", "t", "e", ":", " ", "0", "1", "/", "0", "4", "/", "2", "0",
    "2", "6", "5">>

\* "Time: 03:00 PM - 11:00 PM"
LineTime ==
  <<"T", "i", "m", "e", ":", " ", "0", "3", ":", "0", "0", " ", "P", "M",
    " ", "-", " ", "1", "1", ":", "0", "0", " ", "P", "M">>

\* "time: 11:00pm-7:00am"
LineTimeNight ==
  <<"t", "i", "m", "e", ":", " ", "1", "1", ":", "0", "0", "p", "m", "-",
    "7", ":", "0", "0", "a", "m">>

\* "Time: 13:00 PM - 11:00 PM"
LineTimeHour13 ==
  <<"T", "i", "m", "e", ":", " ", "1", "3", ":", "0", "0", " ", "P", "M",
    " ", "-", " ", "1", "1", ":", "0", "0", " ", "P", "M">>

\* "Time: 3pm - 11pm"
LineTimeShort ==
  <<"T", "i", "m", "e", ":", " ", "3", "p", "m", " ", "-", " ", "1", "1",
    "p", "m">>

FieldLines ==
  <<LinePosition, LinePositionAgain, LineSite, LineDate,
    LineDateImpossible, LineDateOneDigit, LineDateTrailing, LineTime,
    LineTimeNight, LineTimeHour13, LineTimeShort>>

\* " CAR"
SiteCar ==
  <<" ", "C", "A", "R">>

\* What follows "Work Site:" on a block's first line
SiteTails == {<<>>, SiteCar}

\* The most lines after a block's first
MaxBlockLines == 3

\* The blocks _parse_block is handed: "Work Site:" + the text up to the next entry
BlockArgs ==
  {LblWorkSite \o tail \o Cat([k \in 1..Len(q) |-> <<"\n">> \o FieldLines[q[k]]]) :
     tail \in SiteTails, q \in Picks(MaxBlockLines, Len(FieldLines))}

\* Every text (\d{1,2}:\d{2}) can capture
TwoDigits(n) == <<Digits[(n \div 10) + 1], Digits[(n % 10) + 1]>>

HourTexts == {<<Digits[n + 1]>> : n \in 0..9} \cup {TwoDigits(n) : n \in 0..99}

ClockTexts == {h \o <<":">> \o TwoDigits(n) : h \in HourTexts, n \in 0..99}

\* Some of what (AM|PM) can capture under re.IGNORECASE
AmPmTexts == {<<"A", "M">>, <<"P", "M">>, <<"a", "m">>, <<"p", "M">>}

TimeArgs == [time_str : ClockTexts, ampm : AmPmTexts]

\* Shift records
EventDates ==
  {[y |-> 2026, m |-> 3, d |-> 2], [y |-> 2026, m |-> 12, d |-> 31],
   [y |-> 2024, m |-> 2, d |-> 28], [y |-> 2026, m |-> 2, d |-> 28],
   [y |-> 2026, m |-> 4, d |-> 30]}

EventTimes == [h : 0..23, mi : {0, 59}]

ShiftArgs == [date : EventDates, start : EventTimes, end : EventTimes, title : {<<"B">>}]

Afternoon ==
  [date |-> [y |-> 2026, m |-> 3, d |-> 2], start |-> [h |-> 15, mi |-> 0],
   end |-> [h |-> 23, mi |-> 0], title |-> <<"B">>]

Overnight ==
  [date |-> [y |-> 2026, m |-> 2, d |-> 28], start |-> [h |-> 23, mi |-> 0],
   end |-> [h |-> 7, mi |-> 0], title |-> <<"N">>]

Untitled ==
  [date |-> [y |-> 2026, m |-> 12, d |-> 31], start |-> [h |-> 9, mi |-> 0],
   end |-> [h |-> 9, mi |-> 0]]

GivenShifts == <<Afternoon, Overnight, Untitled>>

\* The most records generate_ics is handed
MaxShifts == 2

ShiftLists ==
  {[k \in 1..Len(q) |-> GivenShifts[q[k]]] : q \in Picks(MaxShifts, Len(GivenShifts))}

GivenPath == [dir |-> ".", stem |-> "out", date |-> None, ext |-> ".ics"]

\* ------------------------------------------------------------------------
\* State
\* ------------------------------------------------------------------------

VARIABLES
  entry,         \* the function the run entered through
  pc,            \* where the run stands
  arg,           \* the argument of a directly called helper
  ret,           \* what a directly called helper returned
  body,          \* main: body; parse_shifts: body
  shift_blocks,  \* parse_shifts: blocks[1:]
  idx,           \* the position of the running for loop
  shifts,        \* parse_shifts: shifts; main: shifts; generate_ics: shifts
  cal,           \* generate_ics: cal, None before Calendar() is built
  output_path,   \* generate_ics: output_path
  written,       \* every write_bytes so far: the path and the events written
  raised,        \* the exception that ended the run, "" when none
  exit_code,     \* the status sys.exit was called with, -1 when it was not
  calls          \* the steps main has entered, in order

vars ==
  <<entry, pc, arg, ret, body, shift_blocks, idx, shifts, cal, output_path,
    written, raised, exit_code, calls>>

\* What a fresh run holds besides its entry point and input.
Fresh ==
  /\ ret = None
  /\ shift_blocks = <<>>
  /\ idx = 0
  /\ cal = None
  /\ written = <<>>
  /\ raised = ""
  /\ exit_code = -1
  /\ calls = <<>>

\* python main.py, with or without --week and --file
InitMain ==
  /\ entry = "main"
  /\ pc = "main"
  /\ arg \in [week : {"absent", "monday", "malformed"}, file : BOOLEAN]
  /\ body = <<>>
  /\ shifts = <<>>
  /\ output_path = None

\* A caller of parse_shifts(body)
InitParseShifts ==
  /\ entry = "parse_shifts"
  /\ pc = "parse_shifts"
  /\ arg = None
  /\ body \in Bodies
  /\ shifts = <<>>
  /\ output_path = None

\* A caller of _parse_block(block)
InitParseBlock ==
  /\ entry = "_parse_block"
  /\ pc = "_parse_block"
  /\ arg \in [block : BlockArgs]
  /\ body = <<>>
  /\ shifts = <<>>
  /\ output_path = None

\* A caller of _parse_time(time_str, ampm)
InitParseTime ==
  /\ entry = "_parse_time"
  /\ pc = "_parse_time"
  /\ arg \in TimeArgs
  /\ body = <<>>
  /\ shifts = <<>>
  /\ output_path = None

\* A caller of _make_event(shift)
InitMakeEvent ==
  /\ entry = "_make_event"
  /\ pc = "_make_event"
  /\ arg \in ShiftArgs
  /\ body = <<>>
  /\ shifts = <<>>
  /\ output_path = None

\* A caller of generate_ics(shifts, output_path)
InitGenerateIcs ==
  /\ entry = "generate_ics"
  /\ pc = "generate_ics"
  /\ arg = None
  /\ body = <<>>
  /\ shifts \in ShiftLists
  /\ output_path \in {None, GivenPath}

Init ==
  /\ Fresh
  /\ \/ InitMain
     \/ InitParseShifts
     \/ InitParseBlock
     \/ InitParseTime
     \/ InitMakeEvent
     \/ InitGenerateIcs

\* sys.exit(code)
Exit(code) ==
  /\ pc' = "exited"
  /\ exit_code' = code

\* ------------------------------------------------------------------------
\* main.py
\* ------------------------------------------------------------------------

\* main, lines 21-32: a --week that date.fromisoformat rejects ends the run.
main_week ==
  /\ pc = "main"
  /\ IF arg.week = "malformed"
     THEN Exit(1)
     ELSE pc' = "get_body" /\ UNCHANGED exit_code
  /\ UNCHANGED <<entry, arg, ret, body, shift_blocks, idx, shifts, cal,
                 output_path, written, raised, calls>>

\* main, lines 35-38: _read_file or _fetch_from_gmail hands back a text.
main_get_body ==
  /\ pc = "get_body"
  /\ body' \in Bodies
  /\ pc' = "check_body"
  /\ calls' = Append(calls, "body")
  /\ UNCHANGED <<entry, arg, ret, shift_blocks, idx, shifts, cal, output_path,
                 written, raised, exit_code>>

\* _read_file finds no file, or _fetch_from_gmail finds no email: sys.exit(1).
main_no_source ==
  /\ pc = "get_body"
  /\ Exit(1)
  /\ UNCHANGED <<entry, arg, ret, body, shift_blocks, idx, shifts, cal,
                 output_path, written, raised, calls>>

\* main, lines 40-46
main_check_body ==
  /\ pc = "check_body"
  /\ IF body = <<>>
     THEN Exit(1)
     ELSE pc' = "parse_shifts" /\ UNCHANGED exit_code
  /\ UNCHANGED <<entry, arg, ret, body, shift_blocks, idx, shifts, cal,
                 output_path, written, raised, calls>>

\* main_check_shifts without the exit on an empty list
main_check_shifts_NoExit ==
  /\ pc = "check_shifts"
  /\ pc' = "generate_ics"
  /\ UNCHANGED <<entry, arg, ret, body, shift_blocks, idx, shifts, cal,
                 output_path, written, raised, calls, exit_code>>

\* main, lines 48-57
main_check_shifts ==
  /\ pc = "check_shifts"
  /\ IF shifts = <<>>
     THEN Exit(1)
     ELSE pc' = "generate_ics" /\ UNCHANGED exit_code
  /\ UNCHANGED <<entry, arg, ret, body, shift_blocks, idx, shifts, cal,
                 output_path, written, raised, calls>>

\* main, lines 58-59: the run ends after the path is printed.
main_done ==
  /\ pc = "main_done"
  /\ Exit(0)
  /\ UNCHANGED <<entry, arg, ret, body, shift_blocks, idx, shifts, cal,
                 output_path, written, raised, calls>>

\* ------------------------------------------------------------------------
\* shift_parser.py
\* ------------------------------------------------------------------------

\* parse_shifts, lines 58-63
parse_shifts_split ==
  /\ pc = "parse_shifts"
  /\ shifts' = <<>>
  /\ shift_blocks' = Tail(ShiftBlockSplit(body))
  /\ idx' = 1
  /\ pc' = "parse_loop"
  /\ calls' = Append(calls, "parse_shifts")
  /\ UNCHANGED <<entry, arg, ret, body, cal, output_path, written, raised,
                 exit_code>>

\* Collected with the record put first instead of last
Collected_Prepend(acc, block) ==
  LET shift == _parse_block(LblWorkSite \o block)
  IN IF shift # None THEN <<shift>> \o acc ELSE acc

\* shifts after one pass of the loop body, lines 66-68
Collected(acc, block) ==
  LET shift == _parse_block(LblWorkSite \o block)
  IN IF shift # None THEN Append(acc, shift) ELSE acc

\* parse_shifts, lines 65-68: one pass of the loop
parse_shifts_block ==
  /\ pc = "parse_loop"
  /\ idx <= Len(shift_blocks)
  /\ shifts' = Collected(shifts, shift_blocks[idx])
  /\ idx' = idx + 1
  /\ UNCHANGED <<entry, pc, arg, ret, body, shift_blocks, cal, output_path,
                 written, raised, exit_code, calls>>

\* parse_shifts, lines 70-73: the notice is printed and shifts returned.
parse_shifts_return ==
  /\ pc = "parse_loop"
  /\ idx > Len(shift_blocks)
  /\ pc' = IF entry = "main" THEN "check_shifts" ELSE "returned"
  /\ UNCHANGED <<entry, arg, ret, body, shift_blocks, idx, shifts, cal,
                 output_path, written, raised, exit_code, calls>>

\* _parse_block called on its own
parse_block_call ==
  /\ pc = "_parse_block"
  /\ ret' = _parse_block(arg.block)
  /\ pc' = "returned"
  /\ UNCHANGED <<entry, arg, body, shift_blocks, idx, shifts, cal, output_path,
                 written, raised, exit_code, calls>>

\* _parse_time called on its own
parse_time_call ==
  /\ pc = "_parse_time"
  /\ ret' = _parse_time(arg.time_str, arg.ampm)
  /\ pc' = "returned"
  /\ UNCHANGED <<entry, arg, body, shift_blocks, idx, shifts, cal, output_path,
                 written, raised, exit_code, calls>>

\* ------------------------------------------------------------------------
\* calendar_generator.py
\* ------------------------------------------------------------------------

\* NoShifts with the guard never taken
NoShifts_Never(ss) == FALSE

\* "not shifts"
NoShifts(ss) == ss = <<>>

\* generate_ics, lines 49-57: the guard, then the empty Calendar
generate_ics_begin ==
  /\ pc = "generate_ics"
  /\ calls' = Append(calls, "generate_ics")
  /\ IF NoShifts(shifts)
     THEN /\ raised' = "ValueError"
          /\ pc' = "raised"
          /\ UNCHANGED <<cal, idx>>
     ELSE /\ cal' = [events |-> <<>>]
          /\ idx' = 1
          /\ pc' = "ics_loop"
          /\ UNCHANGED raised
  /\ UNCHANGED <<entry, arg, ret, body, shift_blocks, shifts, output_path,
                 written, exit_code>>

\* cal after add_component(event)
Added(c, shift) == [c EXCEPT !.events = Append(c.events, _make_event(shift))]

\* generate_ics, lines 59-61: one pass of the loop
generate_ics_event ==
  /\ pc = "ics_loop"
  /\ idx <= Len(shifts)
  /\ cal' = Added(cal, shifts[idx])
  /\ idx' = idx + 1
  /\ UNCHANGED <<entry, pc, arg, ret, body, shift_blocks, shifts, output_path,
                 written, raised, exit_code, calls>>

\* generate_ics, lines 63-68
generate_ics_write ==
  /\ pc = "ics_loop"
  /\ idx > Len(shifts)
  /\ output_path' = IF output_path = None THEN DefaultPath(shifts) ELSE output_path
  /\ written' = Append(written, [path |-> output_path', events |-> cal.events])
  /\ pc' = IF entry = "main" THEN "main_done" ELSE "returned"
  /\ UNCHANGED <<entry, arg, ret, body, shift_blocks, idx, shifts, cal, raised,
                 exit_code, calls>>

\* _make_event called on its own
make_event_call ==
  /\ pc = "_make_event"
  /\ ret' = _make_event(arg)
  /\ pc' = "returned"
  /\ UNCHANGED <<entry, arg, body, shift_blocks, idx, shifts, cal, output_path,
                 written, raised, exit_code, calls>>

Next ==
  \/ main_week
  \/ main_get_body
  \/ main_no_source
  \/ main_check_body
  \/ main_check_shifts
  \/ main_done
  \/ parse_shifts_split
  \/ parse_shifts_block
  \/ parse_shifts_return
  \/ parse_block_call
  \/ parse_time_call
  \/ generate_ics_begin
  \/ generate_ics_event
  \/ generate_ics_write
  \/ make_event_call

Spec == Init /\ [][Next]_vars

\* ------------------------------------------------------------------------
\* Properties
\* ------------------------------------------------------------------------

Range(seq) == {seq[k] : k \in 1..Len(seq)}

\* parse_shifts has run to its return statement.
ParseShiftsReturned ==
  /\ entry \in {"main", "parse_shifts"}
  /\ "parse_shifts" \in Range(calls)
  /\ pc # "parse_loop"

BlockReturned == entry = "_parse_block" /\ pc = "returned"

\* A record with its date and both times in place
Whole(shift) == shift.date # None /\ shift.start # None /\ shift.end # None

\* C1: every record parse_shifts collects has its date, start and end
\* resolved, and a block with any of the three unresolved after the scan of
\* all its lines yields no record at all.
C1_NoPartialRecord ==
  /\ entry \in {"main", "parse_shifts"} => \A k \in 1..Len(shifts) : Whole(shifts[k])
  /\ BlockReturned =>
       IF FieldsResolved(BlockFields(arg.block))
       THEN ret # None /\ Whole(ret)
       ELSE ret = None

\* A body of two entries of which one was dropped and the other kept whole
C1_Witness ==
  /\ entry = "parse_shifts"
  /\ pc = "returned"
  /\ Len(shift_blocks) = 2
  /\ Len(shifts) = 1
  /\ Whole(shifts[1])

\* The blocks, by position, whose date, start and end resolve
ResolvingBlocks ==
  {k \in 1..Len(shift_blocks) : FieldsResolved(BlockFields(LblWorkSite \o shift_blocks[k]))}

\* The j-th least element of a set of positions
NthOf(S, j) == CHOOSE k \in S : Cardinality({i \in S : i <= k}) = j

NoBoundary(s) == \A i \in 1..Len(s) : ShiftBlockMatch(s, i) = 0

\* C2: parse_shifts returns exactly one record for each block whose date,
\* start and end resolve, in the order of the blocks in the text; a text with
\* no boundary line gives the empty sequence, and no error.
C2_OneRecordPerBlockInOrder ==
  /\ ParseShiftsReturned =>
       /\ Len(shifts) = Cardinality(ResolvingBlocks)
       /\ \A j \in 1..Len(shifts) :
            shifts[j] = _parse_block(LblWorkSite \o shift_blocks[NthOf(ResolvingBlocks, j)])
  /\ (entry \in {"main", "parse_shifts"} /\ pc \in {"returned", "check_shifts"}
        /\ NoBoundary(body)) => shifts = <<>>
  /\ entry = "parse_shifts" => raised = ""

\* Two records returned with the later date first: the order of the text
C2_Witness ==
  /\ entry = "parse_shifts"
  /\ pc = "returned"
  /\ Len(shift_blocks) = 2
  /\ Len(shifts) = 2
  /\ DateLess(shifts[2].date, shifts[1].date)

\* A boundary line as the specification words it: optional leading
\* whitespace, digits, a period, whitespace, the label in any letter case
IsBoundaryLine(line) == ShiftBlockMatch(LStrip(line), 1) > 0

BoundaryLines(s) == {k \in 1..Len(SplitLines(s)) : IsBoundaryLine(SplitLines(s)[k])}

\* C3: every boundary line, leading whitespace or not, starts a shift block
\* of its own.
C3_IndentedBoundaryStartsBlock ==
  (entry \in {"main", "parse_shifts"} /\ "parse_shifts" \in Range(calls)) =>
     Len(shift_blocks) >= Cardinality(BoundaryLines(body))

StrPosition == <<"B", "a", "r">>

StrSite == <<"C", "A", "R">>

\* C4: the title of a record is the position alone, the site alone,
\* "{position} @ {site}" or "Work Shift", by which of the two were captured;
\* it is never empty.
C4_TitleComposition ==
  /\ (BlockReturned /\ ret # None) =>
       /\ ret.title # <<>>
       /\ CASE BlockFields(arg.block).position # None /\ BlockFields(arg.block).work_site = None ->
                 ret.title = BlockFields(arg.block).position.str
            [] BlockFields(arg.block).position = None /\ BlockFields(arg.block).work_site # None ->
                 ret.title = BlockFields(arg.block).work_site.str
            [] BlockFields(arg.block).position # None /\ BlockFields(arg.block).work_site # None ->
                 ret.title = BlockFields(arg.block).position.str \o <<" ", "@", " ">>
                               \o BlockFields(arg.block).work_site.str
            [] OTHER -> ret.title = <<"W", "o", "r", "k", " ", "S", "h", "i", "f", "t">>
  /\ entry \in {"main", "parse_shifts"} => \A k \in 1..Len(shifts) : shifts[k].title # <<>>

\* A block with both fields: "Bar @ CAR"
C4_Witness ==
  /\ BlockReturned
  /\ ret # None
  /\ ret.title = StrPosition \o <<" ", "@", " ">> \o StrSite

\* The stripped, non-blank lines of a block, in order
ScannedLines(block) ==
  SelectSeq([k \in 1..Len(SplitLines(block)) |-> Strip(SplitLines(block)[k])],
            LAMBDA line : line # <<>>)

\* What follows a label and the whitespace after it, to the end of the line
ValueAfter(line, lbl) ==
  SubSeq(line, Len(lbl) + 1 + SpaceRun(line, Len(lbl) + 1), Len(line))

\* Exactly two digits / two digits / four digits, and a day that exists
IsExactDate(v) == Len(v) = 10 /\ DateShapeAt(v, 1) /\ _parse_date(v) # None

\* The lines of a block that begin with a label, by position
Labelled(block, lbl) ==
  {k \in 1..Len(ScannedLines(block)) : MatchLit(ScannedLines(block)[k], 1, lbl)}

\* C5: a Date line whose value is not exactly a valid dd/mm/yyyy date yields
\* no date, so a block with no other Date line is discarded.
C5_StrictDate ==
  (BlockReturned /\
     \A k \in Labelled(arg.block, LblDate) :
        ~IsExactDate(ValueAfter(ScannedLines(arg.block)[k], LblDate)))
  => ret = None

\* The hour and the minute a clock text h:mm or hh:mm spells, as numbers
HourNumber(time_str) == IntOf(time_str, 1, Len(time_str) - 3)

MinuteNumber(time_str) == IntOf(time_str, Len(time_str) - 1, Len(time_str))

OnTheClock(time_str) ==
  HourNumber(time_str) \in 1..12 /\ MinuteNumber(time_str) \in 0..59

\* The scanned lines of a block that TIME_LINE_RE matches, by position
TimeLines(block) ==
  {k \in 1..Len(ScannedLines(block)) :
     /\ WorkSiteMatch(ScannedLines(block)[k]) = None
     /\ PositionMatch(ScannedLines(block)[k]) = None
     /\ DateLineMatch(ScannedLines(block)[k]) = None
     /\ TimeLineMatch(ScannedLines(block)[k]) # None}

Greatest(S) == CHOOSE i \in S : \A j \in S : j <= i

LastTimeGroups(block) == TimeLineMatch(ScannedLines(block)[Greatest(TimeLines(block))])

\* C6: for an hour h in 1..12 and a minute m in 0..59 _parse_time gives hour
\* h mod 12 for AM and (h mod 12) + 12 for PM, with minute m; for h = 0,
\* h > 12 or m > 59 it gives None, and a block whose Time line leaves start
\* or end unresolved is discarded, nothing raised.
C6_TwelveHourClock ==
  /\ (entry = "_parse_time" /\ pc = "returned") =>
       IF OnTheClock(arg.time_str)
       THEN ret = [h |-> (HourNumber(arg.time_str) % 12)
                           + (IF Lower(arg.ampm[1]) = "p" THEN 12 ELSE 0),
                   mi |-> MinuteNumber(arg.time_str)]
       ELSE ret = None
  /\ (BlockReturned /\ TimeLines(arg.block) # {}
        /\ (~OnTheClock(LastTimeGroups(arg.block).g1)
              \/ ~OnTheClock(LastTimeGroups(arg.block).g3))) => ret = None
  /\ entry \in {"_parse_time", "_parse_block"} => raised = ""

\* 12:00 AM is midnight
C6_Witness ==
  /\ entry = "_parse_time"
  /\ pc = "returned"
  /\ arg = [time_str |-> <<"1", "2", ":", "0", "0">>, ampm |-> <<"A", "M">>]
  /\ ret = [h |-> 0, mi |-> 0]

\* date.toordinal(): the days from 0001-01-01, that day being 1
DaysBeforeYear(y) == (y - 1) * 365 + ((y - 1) \div 4) - ((y - 1) \div 100) + ((y - 1) \div 400)

RECURSIVE DaysBeforeMonth(_, _)
DaysBeforeMonth(y, m) ==
  IF m = 1 THEN 0 ELSE DaysBeforeMonth(y, m - 1) + DaysInMonth(y, m - 1)

ToOrdinal(date) == DaysBeforeYear(date.y) + DaysBeforeMonth(date.y, date.m) + date.d

\* The minutes from 0001-01-01 00:00 to a datetime
MinutesOf(dt) == (ToOrdinal(dt.date) - 1) * 1440 + dt.time.h * 60 + dt.time.mi

MinuteOfDay(time) == time.h * 60 + time.mi

C8_EmptyFailsFast ==
  /\ (entry = "generate_ics" /\ shifts = <<>>) =>
       /\ pc \in {"generate_ics", "raised"}
       /\ pc = "raised" => raised = "ValueError"
       /\ cal = None
       /\ written = <<>>
  /\ (entry = "generate_ics" /\ shifts # <<>>) =>
       /\ raised = ""
       /\ pc = "returned" =>
            /\ Len(written) = 1
            /\ Len(written[1].events) = Len(shifts)
            /\ \A k \in 1..Len(shifts) : written[1].events[k] = _make_event(shifts[k])

\* The empty sequence refused, nothing built, nothing written
C8_Witness ==
  /\ entry = "generate_ics"
  /\ shifts = <<>>
  /\ pc = "raised"
  /\ raised = "ValueError"
  /\ cal = None
  /\ written = <<>>

\* Which of the four patterns the if / elif chain settles on for a line
KindOf(line) ==
  IF WorkSiteMatch(line) # None THEN "site"
  ELSE IF PositionMatch(line) # None THEN "position"
  ELSE IF DateLineMatch(line) # None THEN "date"
  ELSE IF TimeLineMatch(line) # None THEN "time"
  ELSE "other"

\* The last scanned line of a kind, 0 when the block has none
LastOfKind(block, kind) ==
  LET hits == {k \in 1..Len(ScannedLines(block)) : KindOf(ScannedLines(block)[k]) = kind}
  IN IF hits = {} THEN 0 ELSE Greatest(hits)

LastLine(block, kind) == ScannedLines(block)[LastOfKind(block, kind)]

\* Each field as its last matching line alone gives it
LastSite(block) ==
  IF LastOfKind(block, "site") = 0 THEN None
  ELSE Str(Strip(WorkSiteMatch(LastLine(block, "site")).str))

LastPosition(block) ==
  IF LastOfKind(block, "position") = 0 THEN None
  ELSE Str(Strip(PositionMatch(LastLine(block, "position")).str))

LastDate(block) ==
  IF LastOfKind(block, "date") = 0 THEN None
  ELSE _parse_date(DateLineMatch(LastLine(block, "date")).str)

LastStart(block) ==
  IF LastOfKind(block, "time") = 0 THEN None
  ELSE _parse_time(TimeLineMatch(LastLine(block, "time")).g1,
                   TimeLineMatch(LastLine(block, "time")).g2)

LastEnd(block) ==
  IF LastOfKind(block, "time") = 0 THEN None
  ELSE _parse_time(TimeLineMatch(LastLine(block, "time")).g3,
                   TimeLineMatch(LastLine(block, "time")).g4)

\* C9, amended: for each field the last line that matches the field's
\* pattern decides: its value is the one used, and when that value is no
\* date or no time of day the field ends unresolved and the block is
\* discarded, whatever an earlier line held. A line that bears the label but
\* does not match the pattern changes nothing.
C9_LastMatchingLineWins ==
  BlockReturned =>
    IF LastDate(arg.block) = None \/ LastStart(arg.block) = None \/ LastEnd(arg.block) = None
    THEN ret = None
    ELSE /\ ret # None
         /\ ret.date = LastDate(arg.block)
         /\ ret.start = LastStart(arg.block)
         /\ ret.end = LastEnd(arg.block)
         /\ ret.title = MakeTitle(LastPosition(arg.block), LastSite(arg.block))

\* A valid Date line, then one that names 31 February, then a valid Time
\* line: the block is discarded.
C9_Witness ==
  /\ BlockReturned
  /\ arg.block = LblWorkSite \o SiteCar \o <<"\n">> \o LineDate \o <<"\n">>
                   \o LineDateImpossible \o <<"\n">> \o LineTime
  /\ ret = None

\* Both clocks of a Time line's value are times of day and nothing else is there
IsExactTimeLine(line) ==
  /\ TimeLineMatch(line) # None
  /\ _parse_time(TimeLineMatch(line).g1, TimeLineMatch(line).g2) # None
  /\ _parse_time(TimeLineMatch(line).g3, TimeLineMatch(line).g4) # None

\* A value that opens with a date that exists, whatever follows it
OpensWithDate(v) ==
  Len(v) >= 10 /\ DateShapeAt(v, 1) /\ _parse_date(SubSeq(v, 1, 10)) # None

\* C9 as stated: the last line that bears a field's label decides; when the
\* last Date or Time line carries a malformed value the block is discarded
\* even though an earlier line was valid. Malformed is read narrowly here: a
\* value that does not even open with a valid date, or with a valid pair of
\* times.
C9_LastLabelWins ==
  BlockReturned =>
    /\ (Labelled(arg.block, LblDate) # {} /\
          ~OpensWithDate(ValueAfter(ScannedLines(arg.block)[Greatest(Labelled(arg.block, LblDate))],
                                    LblDate)))
       => ret = None
    /\ (Labelled(arg.block, LblTime) # {} /\
          ~IsExactTimeLine(ScannedLines(arg.block)[Greatest(Labelled(arg.block, LblTime))]))
       => ret = None

IsPrefix(a, b) == Len(a) <= Len(b) /\ SubSeq(b, 1, Len(a)) = a

\* C10: main takes its steps in the order body, parse_shifts, generate_ics;
\* parse_shifts is never entered with an empty body nor generate_ics with no
\* shifts; nothing is raised, and a run that found no shifts writes no file.
C10_MainOrder ==
  entry = "main" =>
    /\ IsPrefix(calls, <<"body", "parse_shifts", "generate_ics">>)
    /\ "parse_shifts" \in Range(calls) => body # <<>>
    /\ "generate_ics" \in Range(calls) => shifts # <<>>
    /\ raised = ""
    /\ pc # "raised"
    /\ written # <<>> => shifts # <<>>
    /\ exit_code = 1 => written = <<>>

\* A run that parsed a body, found no shifts and left with status 1
C10_Witness ==
  /\ entry = "main"
  /\ pc = "exited"
  /\ exit_code = 1
  /\ calls = <<"body", "parse_shifts">>
  /\ shifts = <<>>
  /\ written = <<>>

====
